---- MODULE Spec2Model ----
(***************************************************************************)
(* State-machine model of the RBAC layer of mongoose-api-user: the         *)
(* middlewares verifyToken, getPermissions and checkRoles, the route       *)
(* table that chains them, the process-wide permission table, and the      *)
(* user / role / post stores the handlers read and write.                  *)
(***************************************************************************)
EXTENDS Naturals, Sequences, FiniteSets, TLC

\* ------------------------------------------------------------------ bounds
MaxRequests == 3
MaxUsers == 2
MaxRoles == 5
MaxPosts == 1
MaxTime == 3
MaxInFlight == 3

\* expiresIn: "1h", counted in ticks of the clock (one tick is half an hour)
TTL == 2

\* --------------------------------------------------------- list utilities
\* Array.prototype.includes
Includes(arr, x) == \E i \in 1..Len(arr) : arr[i] = x

\* Array.prototype.push
Push(arr, x) == Append(arr, x)

\* [...new Set(arr)]: drops repeated entries, keeps first-occurrence order
RECURSIVE Dedup(_)
Dedup(arr) ==
  IF arr = <<>> THEN <<>>
  ELSE LET front == Dedup(SubSeq(arr, 1, Len(arr) - 1))
           last  == arr[Len(arr)]
       IN IF Includes(front, last) THEN front ELSE Append(front, last)

\* roles.flatMap((x) => x.permissions)
RECURSIVE FlatMapPermissions(_)
FlatMapPermissions(roles) ==
  IF roles = <<>> THEN <<>>
  ELSE roles[1].permissions \o FlatMapPermissions(Tail(roles))

Elems(arr) == {arr[i] : i \in 1..Len(arr)}

\* ------------------------------------------------------- PermissionsTypes
Method == {"GET", "POST", "PUT", "DELETE"}

ScopeAllRead ==
  [GET |-> "read", POST |-> "read", PUT |-> "read", DELETE |-> "read"]

Scope ==
  [GET |-> "read", POST |-> "write", PUT |-> "update", DELETE |-> "delete"]

PermissionsWithoutAdmin == [m \in Method |-> <<>>]

\* const permissions = [...] at process start
InitialPermissions == [m \in Method |-> <<"admin_granted">>]

\* `${currentModule}_${findMethod.scope}`
PermissionString(module, method) == module \o "_" \o Scope[method]

\* ------------------------------------------------------------ seed data
\* db.roles.insertMany([...])
SeedRoles ==
  <<[name |-> "user",
     permissions |-> <<"posts_read", "posts_write", "posts_update", "posts_delete">>],
    [name |-> "admin", permissions |-> <<"admin_granted">>],
    [name |-> "manager",
     permissions |-> <<"posts_read", "posts_write", "posts_update", "posts_delete",
                       "users_write", "users_read", "users_update">>],
    [name |-> "guest", permissions |-> <<"posts_read">>]>>

UserIds == 1..MaxUsers
RoleIds == 1..MaxRoles
PostIds == 1..MaxPosts

\* ----------------------------------------------------------------- state
VARIABLES
  permissions,   \* the exported permissions table: method -> list of strings
  users,         \* User collection: _id -> document
  roleStore,     \* Role collection: _id -> document
  posts,         \* Posts collection: set of _id
  nextUserId,    \* next fresh _id of each collection
  nextRoleId,
  nextPostId,
  req,           \* the request being served
  served,        \* number of requests received so far
  processed,     \* history: <<method, module>> pairs getPermissions has seen
  now,           \* Date.now(), in ticks
  issued,        \* history: the tokens loginUser has handed to clients
  pool,          \* the requests being served concurrently, in order of arrival
  resolved       \* history: the <<name, _id>> pairs checkRoles has resolved

vars == <<permissions, users, roleStore, posts, nextUserId, nextRoleId,
          nextPostId, req, served, processed, now, issued, pool, resolved>>

stores == <<users, roleStore, posts, nextUserId, nextRoleId, nextPostId>>

\* ---------------------------------------------------------------- routes
Route(method, path, chain) == [method |-> method, path |-> path, chain |-> chain]

\* router.<method>(path, ...handlers) as registered in routes.ts
routes ==
  { Route("GET",    <<"healthy">>,          <<"healthy">>),
    Route("POST",   <<"auth", "register">>, <<"registerUser">>),
    Route("POST",   <<"auth", "login">>,    <<"loginUser">>),
    Route("GET",    <<"users">>,            <<"verifyToken", "findUsers">>),
    Route("GET",    <<"users", ":id">>,     <<"verifyToken", "findUserById">>),
    Route("POST",   <<"users">>,            <<"verifyToken", "createUser">>),
    Route("PUT",    <<"users", ":id">>,     <<"verifyToken", "updateUser">>),
    Route("DELETE", <<"users", ":id">>,     <<"verifyToken", "deleteUser">>),
    Route("GET",    <<"roles">>,            <<"verifyToken", "findRoles">>),
    Route("GET",    <<"roles", ":id">>,     <<"verifyToken", "findRoleById">>),
    Route("POST",   <<"roles">>,            <<"verifyToken", "createRole">>),
    Route("PUT",    <<"roles", ":id">>,     <<"verifyToken", "updateRole">>),
    Route("DELETE", <<"roles", ":id">>,     <<"verifyToken", "deleteRole">>),
    Route("GET",    <<"posts">>,            <<"findPosts">>),
    Route("GET",    <<"posts", ":id">>,     <<"findPostById">>),
    Route("POST",   <<"posts">>,            <<"verifyToken", "createPost">>),
    Route("PUT",    <<"posts", ":id">>,     <<"updatePost">>),
    Route("DELETE", <<"posts", ":id">>,     <<"deletePost">>) }

\* the routes the RBAC branch re-registers with checkRoles / getPermissions
rbacRoutes ==
  { Route("GET",    <<"users">>,        <<"verifyToken", "getPermissions", "findUsers">>),
    Route("POST",   <<"users">>,        <<"verifyToken", "checkRoles", "createUser">>),
    Route("PUT",    <<"users", ":id">>, <<"verifyToken", "getPermissions", "updateUser">>),
    Route("DELETE", <<"users", ":id">>, <<"verifyToken", "getPermissions", "deleteUser">>),
    Route("POST",   <<"auth", "register">>, <<"checkRoles", "registerUser">>),
    Route("GET",    <<"posts">>,        <<"verifyToken", "getPermissions", "findPosts">>),
    Route("POST",   <<"posts">>,        <<"verifyToken", "getPermissions", "createPost">>) }

\* the router in force: an RBAC registration replaces the earlier one of the
\* same method and path, every other route stays as routes.ts registers it
router ==
  rbacRoutes \cup
  { r \in routes :
      ~\E q \in rbacRoutes : q.method = r.method /\ q.path = r.path }

\* path.replace(/^\/([^\/]+).*/, "$1"): the first path segment
CurrentModule(path) == path[1]

\* -------------------------------------------------------------- requests
NoUser == [id |-> 0]
NoBody == [none |-> TRUE]
NoHeader == [kind |-> "absent", id |-> 0, exp |-> 0]

\* jwt.sign({ id, email, username }, JWT_SECRET, { expiresIn: "1h" }) at time t
JwtSign(id, t) == [kind |-> "signed", id |-> id, exp |-> t + TTL]

\* Authorization headers a client can send: none, "Bearer " with nothing after
\* it, a string that is not a JWT, a JWT whose signature does not match its
\* claims, or a token signed with JWT_SECRET for an identity, whose lifetime
\* has run out at time t or starts at time t
Tokens(ids, t) ==
  {NoHeader, [kind |-> "empty", id |-> 0, exp |-> 0],
   [kind |-> "malformed", id |-> 0, exp |-> 0]}
    \cup {[kind |-> "tampered", id |-> i, exp |-> t + TTL] : i \in ids}
    \cup {[kind |-> "signed", id |-> i, exp |-> e] : i \in ids, e \in {t, t + TTL}}

Idle ==
  [method |-> "GET", path |-> <<"healthy">>, id |-> 0, token |-> NoHeader,
   body |-> NoBody, received |-> NoBody, chain |-> <<>>, pc |-> 0,
   currentUser |-> NoUser, status |-> 200, sent |-> FALSE, resBody |-> NoBody,
   trace |-> <<>>, failure |-> "none", granted |-> "none",
   userPermissions |-> <<>>, role |-> <<>>, awaited |-> NoBody, turn |-> 0]

\* the middleware or handler that runs next for the request, "" when none does
Current == IF req.pc \in 1..Len(req.chain) THEN req.chain[req.pc] ELSE ""

\* next(): hand the request to the following entry of the chain
CallNext(r, name) == [r EXCEPT !.pc = r.pc + 1, !.trace = Append(r.trace, name)]

\* the function returns without calling next: nothing further runs
Return(r, name) == [r EXCEPT !.pc = 0, !.trace = Append(r.trace, name)]

\* res.status(code)
Status(r, code) == [r EXCEPT !.status = code]

\* res.send(body) / res.json(body)
Send(r, body) == [r EXCEPT !.sent = TRUE, !.resBody = body]

Message(text) == [message |-> text]

\* ---------------------------------------------------------------- stores
\* bcrypt.hash(password, salt): the stored form of a hashed password
Hash(plain) == [digest |-> TRUE, of |-> plain]

\* a password string stored as it was received
Plain(plain) == [digest |-> FALSE, of |-> plain]

\* bcrypt.compare(password, this.password): false when this.password is not a
\* digest
ComparePassword(plain, stored) == stored.digest /\ stored.of = plain

\* .populate("roles"): the referenced role documents that still exist
RECURSIVE Populate(_, _)
Populate(refs, store) ==
  IF refs = <<>> THEN <<>>
  ELSE LET rest == Populate(Tail(refs), store)
       IN IF refs[1] \in DOMAIN store
          THEN <<[id |-> refs[1], name |-> store[refs[1]].name,
                  permissions |-> store[refs[1]].permissions]>> \o rest
          ELSE rest

FindUserByIdSeededRoles(id) ==
  IF id \in DOMAIN users
  THEN [id |-> id, email |-> users[id].email, password |-> users[id].password,
        permissions |-> users[id].permissions,
        roles |-> Populate(users[id].roles, SeedRoles)]
  ELSE NoUser

\* UserModel.findById(id).populate("roles").exec(): NoUser stands for null
FindUserById(id) ==
  IF id \in DOMAIN users
  THEN [id |-> id, email |-> users[id].email, password |-> users[id].password,
        permissions |-> users[id].permissions,
        roles |-> Populate(users[id].roles, roleStore)]
  ELSE NoUser

\* the error jwt.verify throws
Rejected(text) == [ok |-> FALSE, id |-> 0, message |-> text]

JwtVerifyUnsigned(token, t) ==
  CASE token.kind \in {"absent", "empty"} -> Rejected("jwt must be provided")
    [] token.kind = "malformed" -> Rejected("jwt malformed")
    [] t >= token.exp           -> Rejected("jwt expired")
    [] OTHER                    -> [ok |-> TRUE, id |-> token.id, message |-> ""]

JwtVerifyIgnoreExpiration(token, t) ==
  CASE token.kind \in {"absent", "empty"} -> Rejected("jwt must be provided")
    [] token.kind = "malformed" -> Rejected("jwt malformed")
    [] token.kind = "tampered"  -> Rejected("invalid signature")
    [] OTHER                    -> [ok |-> TRUE, id |-> token.id, message |-> ""]

\* jwt.verify(token, JWT_SECRET) at time t: the claims, or the message of the
\* error thrown
JwtVerify(token, t) ==
  CASE token.kind \in {"absent", "empty"} -> Rejected("jwt must be provided")
    [] token.kind = "malformed" -> Rejected("jwt malformed")
    [] token.kind = "tampered"  -> Rejected("invalid signature")
    [] t >= token.exp           -> Rejected("jwt expired")
    [] OTHER                    -> [ok |-> TRUE, id |-> token.id, message |-> ""]

\* ------------------------------------------------------------ request data
Email == {"a@x.com", "b@x.com"}

AbsentRoles == [type |-> "absent", value |-> <<>>]
ArrayRoles(names) == [type |-> "array", value |-> names]
StringRoles(name) == [type |-> "string", value |-> <<name>>]

UserBody(email, perms, roles) ==
  [email |-> email, password |-> "secret123", permissions |-> perms, roles |-> roles]

\* bodies sent to POST /auth/register and POST /users
UserBodies ==
  { UserBody("a@x.com", <<>>, AbsentRoles),
    UserBody("a@x.com", <<"users_read">>, ArrayRoles(<<"guest">>)),
    UserBody("b@x.com", <<>>, ArrayRoles(<<"admin", "ghost">>)),
    UserBody("b@x.com", <<>>, ArrayRoles(<<"guest", "manager">>)),
    UserBody("b@x.com", <<>>, ArrayRoles(<<"ghost">>)),
    UserBody("a@x.com", <<>>, StringRoles("admin")),
    UserBody("a@x.com", <<>>, ArrayRoles(<<>>)),
    NoBody }

\* bodies sent to PUT /users/:id
UserUpdates ==
  { [permissions |-> <<"posts_write">>], [roles |-> <<>>], [password |-> "changed"] }

\* bodies sent to POST /roles and PUT /roles/:id
RoleBodies ==
  { [name |-> "editor", permissions |-> <<"posts_update">>],
    [name |-> "guest", permissions |-> <<>>] }
RoleUpdates ==
  { [permissions |-> <<>>], [permissions |-> <<"posts_read">>], [name |-> "retired"] }

\* bodies sent to POST /posts and PUT /posts/:id
PostBodies == { [title |-> "hello"], NoBody }

\* bodies sent to POST /auth/login
LoginBodies ==
  { [email |-> e, password |-> p] : e \in Email, p \in {"secret123", "guess"} }

Bodies(handler) ==
  CASE handler \in {"registerUser", "createUser"} -> UserBodies
    [] handler = "updateUser" -> UserUpdates
    [] handler = "createRole" -> RoleBodies \cup {NoBody}
    [] handler = "updateRole" -> RoleUpdates
    [] handler \in {"createPost", "updatePost"} -> PostBodies
    [] handler = "loginUser" -> LoginBodies
    [] OTHER -> {NoBody}

\* values of the :id parameter
ParamIds(path) ==
  IF Len(path) = 2 /\ path[2] = ":id"
  THEN CASE path[1] = "users" -> UserIds
         [] path[1] = "roles" -> RoleIds
         [] OTHER -> PostIds
  ELSE {0}

\* ------------------------------------------------------------------ Init
Init ==
  /\ permissions = InitialPermissions
  /\ users = <<>>
  /\ roleStore = SeedRoles
  /\ posts = {}
  /\ nextUserId = 1
  /\ nextRoleId = Len(SeedRoles) + 1
  /\ nextPostId = 1
  /\ req = Idle
  /\ served = 0
  /\ processed = {}
  /\ now = 0
  /\ issued = {}
  /\ pool = <<>>
  /\ resolved = {}

\* a creating request is taken only while its collection has a fresh _id left
HasRoom(handler) ==
  CASE handler \in {"registerUser", "createUser"} -> nextUserId <= MaxUsers
    [] handler = "createRole" -> nextRoleId <= MaxRoles
    [] handler = "createPost" -> nextPostId <= MaxPosts
    [] OTHER -> TRUE

\* a request for one of the routes arrives once the previous one has nothing
\* left to run, carrying one of the tokens; the Authorization header is read
\* by verifyToken only, so a request for a route without it carries none
Arrival(routeSet, tokens, budget) ==
  /\ Current = ""
  /\ served < budget
  /\ \E r \in routeSet :
       /\ HasRoom(r.chain[Len(r.chain)])
       /\ \E id \in ParamIds(r.path) :
         \E token \in IF Includes(r.chain, "verifyToken") THEN tokens ELSE {NoHeader} :
           \E body \in Bodies(r.chain[Len(r.chain)]) :
             req' = [Idle EXCEPT !.method = r.method, !.path = r.path, !.id = id,
                                 !.token = token, !.body = body, !.received = body,
                                 !.chain = r.chain, !.pc = 1]
  /\ served' = served + 1
  /\ UNCHANGED <<permissions, stores, processed, now, issued, pool, resolved>>

\* a client can hold a token for every identity that was ever created
NewRequest == Arrival(router, Tokens(1..(nextUserId - 1), now), MaxRequests)

\* ----------------------------------------------------------- middlewares
verifyTokenFallsThrough ==
  /\ Current = "verifyToken"
  /\ LET verify  == JwtVerify(req.token, now)
         getUser == FindUserById(verify.id)
     IN req' =
          IF ~verify.ok
          THEN CallNext(Send(Status([req EXCEPT !.failure = "Token"], 401),
                             Message(verify.message)), "verifyToken")
          ELSE CallNext([req EXCEPT !.currentUser = getUser], "verifyToken")
  /\ UNCHANGED <<permissions, stores, served, processed, now, issued, pool, resolved>>

verifyTokenTrustsClaims ==
  /\ Current = "verifyToken"
  /\ LET verify  == JwtVerify(req.token, now)
         getUser == FindUserById(verify.id)
         claimed == [id |-> verify.id, email |-> "", password |-> Plain(""),
                     permissions |-> <<>>, roles |-> <<>>]
     IN req' =
          IF ~verify.ok
          THEN Return(Send(Status([req EXCEPT !.failure = "Token"], 401),
                           Message(verify.message)), "verifyToken")
          ELSE IF getUser.id = 0
          THEN CallNext([req EXCEPT !.currentUser = claimed], "verifyToken")
          ELSE CallNext([req EXCEPT !.currentUser = getUser], "verifyToken")
  /\ UNCHANGED <<permissions, stores, served, processed, now, issued, pool, resolved>>

verifyToken ==
  /\ Current = "verifyToken"
  /\ LET verify  == JwtVerify(req.token, now)
         getUser == FindUserById(verify.id)
     IN req' =
          IF ~verify.ok
          THEN Return(Send(Status([req EXCEPT !.failure = "Token"], 401),
                           Message(verify.message)), "verifyToken")
          ELSE IF getUser.id = 0
          THEN Return(Status([req EXCEPT !.failure = "IdentityNotFound"], 400),
                      "verifyToken")
          ELSE CallNext([req EXCEPT !.currentUser = getUser], "verifyToken")
  /\ UNCHANGED <<permissions, stores, served, processed, now, issued, pool, resolved>>

RegisterWithoutPush(table, method, str) == table

RegisterEvicting(table, method, str) ==
  [table EXCEPT ![method] = <<"admin_granted", str>>]

RegisterAlwaysPush(table, method, str) ==
  [table EXCEPT ![method] = Push(table[method], str)]

\* if (!findMethod.permissions.includes(s)) findMethod.permissions.push(s)
Register(table, method, str) ==
  IF Includes(table[method], str) THEN table
  ELSE [table EXCEPT ![method] = Push(table[method], str)]

MergedWithoutSet(roles) == FlatMapPermissions(roles)

\* [...new Set(roles?.flatMap((x) => x.permissions))]
MergedRolesPermissions(roles) == Dedup(FlatMapPermissions(roles))

UserPermissionsMerged(currentUser) ==
  Dedup(currentUser.permissions \o FlatMapPermissions(currentUser.roles))

\* the identity's own permissions when it has any, else those of its roles
UserPermissions(currentUser) ==
  IF Len(currentUser.permissions) # 0
  THEN currentUser.permissions
  ELSE MergedRolesPermissions(currentUser.roles)

PermissionGrantedLastOnly(required, userPermissions) ==
  IF Includes(userPermissions, required[Len(required)])
  THEN required[Len(required)] ELSE "none"

PermissionGrantedOwnOrAdmin(required, userPermissions) ==
  IF Includes(userPermissions, "admin_granted") THEN "admin_granted"
  ELSE PermissionGrantedLastOnly(required, userPermissions)

PermissionGrantedWhenEmpty(required, userPermissions) ==
  IF userPermissions = <<>> THEN required[1]
  ELSE IF \E i \in 1..Len(required) : Includes(userPermissions, required[i])
  THEN required[CHOOSE i \in 1..Len(required) : Includes(userPermissions, required[i])]
  ELSE "none"

\* findMethod.permissions.find((pm) => userPermissions.includes(pm))
PermissionGranted(required, userPermissions) ==
  LET held == {i \in 1..Len(required) : Includes(userPermissions, required[i])}
  IN IF held = {} THEN "none"
     ELSE required[CHOOSE i \in held : \A j \in held : i <= j]

getPermissionsDeniesThenContinues ==
  /\ Current = "getPermissions"
  /\ req.currentUser.id # 0
  /\ LET currentModule   == CurrentModule(req.path)
         table           == Register(permissions, req.method,
                                     PermissionString(currentModule, req.method))
         userPermissions == UserPermissions(req.currentUser)
         granted         == PermissionGranted(table[req.method], userPermissions)
         decided         == [req EXCEPT !.granted = granted,
                                        !.userPermissions = userPermissions]
     IN /\ permissions' = table
        /\ processed' = processed \cup {<<req.method, currentModule>>}
        /\ req' =
             IF granted = "none"
             THEN CallNext(Send(Status([decided EXCEPT !.failure = "PermissionDenied"], 403),
                                Message("Access denied. No permission.")),
                           "getPermissions")
             ELSE CallNext(decided, "getPermissions")
  /\ UNCHANGED <<stores, served, now, issued, pool, resolved>>

getPermissionsRegistersWhenAllowed ==
  /\ Current = "getPermissions"
  /\ req.currentUser.id # 0
  /\ LET currentModule   == CurrentModule(req.path)
         table           == Register(permissions, req.method,
                                     PermissionString(currentModule, req.method))
         userPermissions == UserPermissions(req.currentUser)
         granted         == PermissionGranted(table[req.method], userPermissions)
         decided         == [req EXCEPT !.granted = granted,
                                        !.userPermissions = userPermissions]
     IN /\ permissions' = IF granted = "none" THEN permissions ELSE table
        /\ processed' = processed \cup {<<req.method, currentModule>>}
        /\ req' =
             IF granted = "none"
             THEN Return(Send(Status([decided EXCEPT !.failure = "PermissionDenied"], 403),
                              Message("Access denied. No permission.")),
                         "getPermissions")
             ELSE CallNext(decided, "getPermissions")
  /\ UNCHANGED <<stores, served, now, issued, pool, resolved>>

\* runs on the identity verifyToken attached (const { currentUser } = req)
getPermissions ==
  /\ Current = "getPermissions"
  /\ req.currentUser.id # 0
  /\ LET currentModule   == CurrentModule(req.path)
         table           == Register(permissions, req.method,
                                     PermissionString(currentModule, req.method))
         userPermissions == UserPermissions(req.currentUser)
         granted         == PermissionGranted(table[req.method], userPermissions)
         decided         == [req EXCEPT !.granted = granted,
                                        !.userPermissions = userPermissions]
     IN /\ permissions' = table
        /\ processed' = processed \cup {<<req.method, currentModule>>}
        /\ req' =
             IF granted = "none"
             THEN Return(Send(Status([decided EXCEPT !.failure = "PermissionDenied"], 403),
                              Message("Access denied. No permission.")),
                         "getPermissions")
             ELSE CallNext(decided, "getPermissions")
  /\ UNCHANGED <<stores, served, now, issued, pool, resolved>>

\* roleService.findRoles({ name: { $in: role } }), in collection order
RECURSIVE FindRolesIn(_, _)
FindRolesIn(names, upTo) ==
  IF upTo = 0 THEN <<>>
  ELSE LET before == FindRolesIn(names, upTo - 1)
       IN IF upTo \in DOMAIN roleStore /\ Includes(names, roleStore[upTo].name)
          THEN Append(before, upTo)
          ELSE before

\* req.body && req.body?.roles ? req.body.roles : []
BodyRoles(body) ==
  IF body = NoBody \/ body.roles.type = "absent"
  THEN ArrayRoles(<<>>)
  ELSE body.roles

RequestedRolesAsGiven(roles) ==
  IF roles.type = "absent" THEN <<"user">> ELSE roles.value

\* Array.isArray(roles) && roles.length !== 0 ? roles : ["user"]
RequestedRoles(roles) ==
  IF roles.type = "array" /\ Len(roles.value) # 0 THEN roles.value ELSE <<"user">>

checkRolesUpserts ==
  /\ Current = "checkRoles"
  /\ LET role      == RequestedRoles(BodyRoles(req.body))
         findRoles == FindRolesIn(role, MaxRoles)
         asked     == [req EXCEPT !.role = role]
     IN /\ req' =
             IF req.body = NoBody
             THEN Return(Send(Status(asked, 500), [error |-> "TypeError"]), "checkRoles")
             ELSE CallNext([asked EXCEPT !.body.roles =
                                           [type |-> "ids", value |-> findRoles]],
                           "checkRoles")
        /\ roleStore' =
             IF Len(findRoles) = 0
             THEN [i \in DOMAIN roleStore \cup {nextRoleId} |->
                     IF i = nextRoleId THEN [name |-> role[1], permissions |-> <<>>]
                     ELSE roleStore[i]]
             ELSE roleStore
        /\ nextRoleId' = IF Len(findRoles) = 0 THEN nextRoleId + 1 ELSE nextRoleId
        /\ resolved' = resolved \cup {<<roleStore[id].name, id>> : id \in Elems(findRoles)}
  /\ UNCHANGED <<permissions, users, posts, nextUserId, nextPostId, served, processed,
                 now, issued, pool>>

checkRolesRequiresAll ==
  /\ Current = "checkRoles"
  /\ LET role      == RequestedRoles(BodyRoles(req.body))
         findRoles == FindRolesIn(role, MaxRoles)
         asked     == [req EXCEPT !.role = role]
     IN req' =
          IF Len(findRoles) # Len(role)
          THEN Return(Send(Status([asked EXCEPT !.failure = "NoMatchingRoles"], 404),
                           Message("No roles found")), "checkRoles")
          ELSE IF req.body = NoBody
          THEN Return(Send(Status(asked, 500), [error |-> "TypeError"]), "checkRoles")
          ELSE CallNext([asked EXCEPT !.body.roles = [type |-> "ids", value |-> findRoles]],
                        "checkRoles")
  /\ UNCHANGED <<permissions, stores, served, processed, now, issued, pool, resolved>>

checkRolesKeepsGoing ==
  /\ Current = "checkRoles"
  /\ LET role      == RequestedRoles(BodyRoles(req.body))
         findRoles == FindRolesIn(role, MaxRoles)
         asked     == [req EXCEPT !.role = role]
     IN req' =
          IF req.body = NoBody
          THEN Return(Send(Status(asked, 500), [error |-> "TypeError"]), "checkRoles")
          ELSE CallNext([asked EXCEPT !.body.roles = [type |-> "ids", value |-> findRoles]],
                        "checkRoles")
  /\ UNCHANGED <<permissions, stores, served, processed, now, issued, pool, resolved>>

checkRoles ==
  /\ Current = "checkRoles"
  /\ LET role      == RequestedRoles(BodyRoles(req.body))
         findRoles == FindRolesIn(role, MaxRoles)
         asked     == [req EXCEPT !.role = role]
     IN /\ req' =
             IF Len(findRoles) = 0
             THEN Return(Send(Status([asked EXCEPT !.failure = "NoMatchingRoles"], 404),
                              Message("No roles found")), "checkRoles")
             ELSE IF req.body = NoBody
             THEN Return(Send(Status(asked, 500), [error |-> "TypeError"]), "checkRoles")
             ELSE CallNext([asked EXCEPT !.body.roles =
                                           [type |-> "ids", value |-> findRoles]],
                           "checkRoles")
        /\ resolved' = resolved \cup {<<roleStore[id].name, id>> : id \in Elems(findRoles)}
  /\ UNCHANGED <<permissions, stores, served, processed, now, issued, pool>>

\* --------------------------------------------------------------- handlers
ToJSONKeepsPassword(doc) == doc

\* UserSchema.methods.toJSON: the document without its password
ToJSON(doc) == [f \in DOMAIN doc \ {"password"} |-> doc[f]]

UserSaveFailsWithoutUniqueIndex(data) ==
  \/ data = NoBody
  \/ data.roles.type \in {"array", "string"} /\ Len(data.roles.value) # 0

\* new UserModel(data).save() rejects: a required field is missing, the role
\* references are not identifiers, or the unique index on email is violated
UserSaveFails(data) ==
  \/ data = NoBody
  \/ data.roles.type \in {"array", "string"} /\ Len(data.roles.value) # 0
  \/ \E id \in DOMAIN users : users[id].email = data.email

\* the document save() writes: the pre("save") hook hashes the password
NewUserDoc(data) ==
  [email |-> data.email, password |-> Hash(data.password),
   permissions |-> data.permissions,
   roles |-> IF data.roles.type = "ids" THEN data.roles.value ELSE <<>>]

\* UserRepository.create
Create(store, id, doc) == [i \in DOMAIN store \cup {id} |-> IF i = id THEN doc ELSE store[i]]

\* findByIdAndDelete
Delete(store, id) == [i \in DOMAIN store \ {id} |-> store[i]]

\* findByIdAndUpdate(id, data): the fields of data replace those of the document
Update(store, id, data) ==
  [store EXCEPT ![id] =
     [f \in DOMAIN store[id] |-> IF f \in DOMAIN data THEN data[f] ELSE store[id][f]]]

\* the update document UserModel.findByIdAndUpdate(id, data) applies: a query
\* update runs no pre("save") hook, each field is written as it was received
UpdateDocument(data) ==
  [f \in DOMAIN data |-> IF f = "password" THEN Plain(data[f]) ELSE data[f]]

Finish(r, name, code, body) == Return(Send(Status(r, code), body), name)

registerUserWithoutLookup ==
  /\ Current = "registerUser"
  /\ IF req.body = NoBody
     THEN /\ req' = Finish(req, "registerUser", 500, [error |-> "TypeError"])
          /\ UNCHANGED <<users, nextUserId>>
     ELSE IF UserSaveFails(req.body)
     THEN /\ req' = Finish(req, "registerUser", 500, [error |-> "ValidationError"])
          /\ UNCHANGED <<users, nextUserId>>
     ELSE /\ users' = Create(users, nextUserId, NewUserDoc(req.body))
          /\ nextUserId' = nextUserId + 1
          /\ req' = Finish(req, "registerUser", 201,
                           [user |-> ToJSON(NewUserDoc(req.body))])
  /\ UNCHANGED <<permissions, roleStore, posts, nextRoleId, nextPostId, served, processed, now, issued, pool, resolved>>

registerUser ==
  /\ Current = "registerUser"
  /\ IF req.body = NoBody
     THEN /\ req' = Finish(req, "registerUser", 500, [error |-> "TypeError"])
          /\ UNCHANGED <<users, nextUserId>>
     ELSE IF \E id \in DOMAIN users : users[id].email = req.body.email
     THEN /\ req' = Finish([req EXCEPT !.failure = "EmailInUse"], "registerUser", 409,
                           Message("Email already in use"))
          /\ UNCHANGED <<users, nextUserId>>
     ELSE IF UserSaveFails(req.body)
     THEN /\ req' = Finish(req, "registerUser", 500, [error |-> "ValidationError"])
          /\ UNCHANGED <<users, nextUserId>>
     ELSE /\ users' = Create(users, nextUserId, NewUserDoc(req.body))
          /\ nextUserId' = nextUserId + 1
          /\ req' = Finish(req, "registerUser", 201,
                           [user |-> ToJSON(NewUserDoc(req.body))])
  /\ UNCHANGED <<permissions, roleStore, posts, nextRoleId, nextPostId, served, processed, now, issued, pool, resolved>>

loginUserRevealsEmail ==
  /\ Current = "loginUser"
  /\ LET found == {id \in DOMAIN users : users[id].email = req.body.email}
     IN IF found = {}
        THEN /\ req' = Finish([req EXCEPT !.failure = "CredentialInvalid"], "loginUser",
                              404, Message("User not found"))
             /\ UNCHANGED issued
        ELSE LET id == CHOOSE i \in found : TRUE
             IN IF ~ComparePassword(req.body.password, users[id].password)
                THEN /\ req' = Finish([req EXCEPT !.failure = "CredentialInvalid"],
                                      "loginUser", 400,
                                      Message("Invalid user or password"))
                     /\ UNCHANGED issued
                ELSE /\ req' = Finish(req, "loginUser", 200,
                                      [message |-> "Login successful",
                                       token |-> JwtSign(id, now)])
                     /\ issued' = issued \cup {JwtSign(id, now)}
  /\ UNCHANGED <<permissions, stores, served, processed, now, pool, resolved>>

loginUser ==
  /\ Current = "loginUser"
  /\ LET found == {id \in DOMAIN users : users[id].email = req.body.email}
     IN IF found = {}
        THEN /\ req' = Finish([req EXCEPT !.failure = "CredentialInvalid"], "loginUser",
                              400, Message("Invalid user or password"))
             /\ UNCHANGED issued
        ELSE LET id == CHOOSE i \in found : TRUE
             IN IF ~ComparePassword(req.body.password, users[id].password)
                THEN /\ req' = Finish([req EXCEPT !.failure = "CredentialInvalid"],
                                      "loginUser", 400,
                                      Message("Invalid user or password"))
                     /\ UNCHANGED issued
                ELSE /\ req' = Finish(req, "loginUser", 200,
                                      [message |-> "Login successful",
                                       token |-> JwtSign(id, now)])
                     /\ issued' = issued \cup {JwtSign(id, now)}
  /\ UNCHANGED <<permissions, stores, served, processed, now, pool, resolved>>

healthy ==
  /\ Current = "healthy"
  /\ req' = Finish(req, "healthy", 200, Message("Api is healthy"))
  /\ UNCHANGED <<permissions, stores, served, processed, now, issued, pool, resolved>>

findUsers ==
  /\ Current = "findUsers"
  /\ req' =
       IF DOMAIN users = {}
       THEN Finish(req, "findUsers", 404, Message("No users found"))
       ELSE Finish(req, "findUsers", 200,
                   [users |-> [id \in DOMAIN users |-> ToJSON(FindUserById(id))]])
  /\ UNCHANGED <<permissions, stores, served, processed, now, issued, pool, resolved>>

findUserById ==
  /\ Current = "findUserById"
  /\ req' =
       IF req.id \notin DOMAIN users
       THEN Finish(req, "findUserById", 404, Message("User not found"))
       ELSE Finish(req, "findUserById", 200, [user |-> ToJSON(FindUserById(req.id))])
  /\ UNCHANGED <<permissions, stores, served, processed, now, issued, pool, resolved>>

createUser ==
  /\ Current = "createUser"
  /\ IF UserSaveFails(req.body)
     THEN /\ req' = Finish(req, "createUser", 400, [error |-> "ValidationError"])
          /\ UNCHANGED <<users, nextUserId>>
     ELSE /\ users' = Create(users, nextUserId, NewUserDoc(req.body))
          /\ nextUserId' = nextUserId + 1
          /\ req' = Finish(req, "createUser", 201,
                           [user |-> ToJSON(NewUserDoc(req.body))])
  /\ UNCHANGED <<permissions, roleStore, posts, nextRoleId, nextPostId, served, processed, now, issued, pool, resolved>>

updateUser ==
  /\ Current = "updateUser"
  /\ IF req.id \notin DOMAIN users
     THEN /\ req' = Finish(req, "updateUser", 404, Message("User not found"))
          /\ UNCHANGED users
     ELSE /\ users' = Update(users, req.id, UpdateDocument(req.body))
          /\ req' = Finish(req, "updateUser", 200,
                           [user |-> ToJSON(Update(users, req.id,
                                                   UpdateDocument(req.body))[req.id])])
  /\ UNCHANGED <<permissions, roleStore, posts, nextUserId, nextRoleId, nextPostId,
                 served, processed, now, issued, pool, resolved>>

deleteUser ==
  /\ Current = "deleteUser"
  /\ IF req.id \notin DOMAIN users
     THEN /\ req' = Finish(req, "deleteUser", 404, Message("User not found"))
          /\ UNCHANGED users
     ELSE /\ users' = Delete(users, req.id)
          /\ req' = Finish(req, "deleteUser", 200, Message("User deleted successfully"))
  /\ UNCHANGED <<permissions, roleStore, posts, nextUserId, nextRoleId, nextPostId,
                 served, processed, now, issued, pool, resolved>>

findRoles ==
  /\ Current = "findRoles"
  /\ req' =
       IF DOMAIN roleStore = {}
       THEN Finish(req, "findRoles", 404, Message("No roles found"))
       ELSE Finish(req, "findRoles", 200, [roles |-> roleStore])
  /\ UNCHANGED <<permissions, stores, served, processed, now, issued, pool, resolved>>

findRoleById ==
  /\ Current = "findRoleById"
  /\ req' =
       IF req.id \notin DOMAIN roleStore
       THEN Finish(req, "findRoleById", 404, Message("Role not found"))
       ELSE Finish(req, "findRoleById", 200, [role |-> roleStore[req.id]])
  /\ UNCHANGED <<permissions, stores, served, processed, now, issued, pool, resolved>>

\* new RoleModel(data).save() rejects: no name, or the unique index on name is violated
RoleSaveFails(data) ==
  \/ data = NoBody
  \/ \E id \in DOMAIN roleStore : roleStore[id].name = data.name

createRole ==
  /\ Current = "createRole"
  /\ IF RoleSaveFails(req.body)
     THEN /\ req' = Finish(req, "createRole", 400, [error |-> "ValidationError"])
          /\ UNCHANGED <<roleStore, nextRoleId>>
     ELSE /\ roleStore' = Create(roleStore, nextRoleId, req.body)
          /\ nextRoleId' = nextRoleId + 1
          /\ req' = Finish(req, "createRole", 201, [role |-> req.body])
  /\ UNCHANGED <<permissions, users, posts, nextUserId, nextPostId, served, processed, now, issued, pool, resolved>>

\* findByIdAndUpdate rejects: the unique index on name is violated
RoleUpdateFails(id, data) ==
  /\ "name" \in DOMAIN data
  /\ \E other \in DOMAIN roleStore \ {id} : roleStore[other].name = data.name

updateRole ==
  /\ Current = "updateRole"
  /\ IF req.id \notin DOMAIN roleStore
     THEN /\ req' = Finish(req, "updateRole", 404, Message("Role not found"))
          /\ UNCHANGED roleStore
     ELSE IF RoleUpdateFails(req.id, req.body)
     THEN /\ req' = Finish(req, "updateRole", 500, [error |-> "MongoServerError"])
          /\ UNCHANGED roleStore
     ELSE /\ roleStore' = Update(roleStore, req.id, req.body)
          /\ req' = Finish(req, "updateRole", 200,
                           [role |-> Update(roleStore, req.id, req.body)[req.id]])
  /\ UNCHANGED <<permissions, users, posts, nextUserId, nextRoleId, nextPostId,
                 served, processed, now, issued, pool, resolved>>

deleteRoleCascades ==
  /\ Current = "deleteRole"
  /\ IF req.id \notin DOMAIN roleStore
     THEN /\ req' = Finish(req, "deleteRole", 404, Message("Role not found"))
          /\ UNCHANGED <<roleStore, users>>
     ELSE /\ roleStore' = Delete(roleStore, req.id)
          /\ users' = [id \in {i \in DOMAIN users : ~Includes(users[i].roles, req.id)}
                         |-> users[id]]
          /\ req' = Finish(req, "deleteRole", 200, Message("Role deleted successfully"))
  /\ UNCHANGED <<permissions, posts, nextUserId, nextRoleId, nextPostId,
                 served, processed, now, issued, pool, resolved>>

deleteRole ==
  /\ Current = "deleteRole"
  /\ IF req.id \notin DOMAIN roleStore
     THEN /\ req' = Finish(req, "deleteRole", 404, Message("Role not found"))
          /\ UNCHANGED roleStore
     ELSE /\ roleStore' = Delete(roleStore, req.id)
          /\ req' = Finish(req, "deleteRole", 200, Message("Role deleted successfully"))
  /\ UNCHANGED <<permissions, users, posts, nextUserId, nextRoleId, nextPostId,
                 served, processed, now, issued, pool, resolved>>

findPosts ==
  /\ Current = "findPosts"
  /\ req' =
       IF posts = {}
       THEN Finish(req, "findPosts", 404, Message("No posts found"))
       ELSE Finish(req, "findPosts", 200, [posts |-> posts])
  /\ UNCHANGED <<permissions, stores, served, processed, now, issued, pool, resolved>>

findPostById ==
  /\ Current = "findPostById"
  /\ req' =
       IF req.id \notin posts
       THEN Finish(req, "findPostById", 404, Message("Post not found"))
       ELSE Finish(req, "findPostById", 200, [post |-> req.id])
  /\ UNCHANGED <<permissions, stores, served, processed, now, issued, pool, resolved>>

createPost ==
  /\ Current = "createPost"
  /\ IF req.body = NoBody
     THEN /\ req' = Finish(req, "createPost", 400, [error |-> "ValidationError"])
          /\ UNCHANGED <<posts, nextPostId>>
     ELSE /\ posts' = posts \cup {nextPostId}
          /\ nextPostId' = nextPostId + 1
          /\ req' = Finish(req, "createPost", 201, [post |-> nextPostId])
  /\ UNCHANGED <<permissions, users, roleStore, nextUserId, nextRoleId, served, processed, now, issued, pool, resolved>>

updatePost ==
  /\ Current = "updatePost"
  /\ req' =
       IF req.id \notin posts
       THEN Finish(req, "updatePost", 404, Message("Post not found"))
       ELSE Finish(req, "updatePost", 200, [post |-> req.id])
  /\ UNCHANGED <<permissions, stores, served, processed, now, issued, pool, resolved>>

deletePost ==
  /\ Current = "deletePost"
  /\ IF req.id \notin posts
     THEN /\ req' = Finish(req, "deletePost", 404, Message("Post not found"))
          /\ UNCHANGED posts
     ELSE /\ posts' = posts \ {req.id}
          /\ req' = Finish(req, "deletePost", 200, Message("Post deleted successfully"))
  /\ UNCHANGED <<permissions, users, roleStore, nextUserId, nextRoleId, nextPostId,
                 served, processed, now, issued, pool, resolved>>

\* ------------------------------------------------------------------ Spec
Next ==
  \/ NewRequest
  \/ verifyToken
  \/ getPermissions
  \/ checkRoles
  \/ registerUser
  \/ loginUser
  \/ healthy
  \/ findUsers
  \/ findUserById
  \/ createUser
  \/ updateUser
  \/ deleteUser
  \/ findRoles
  \/ findRoleById
  \/ createRole
  \/ updateRole
  \/ deleteRole
  \/ findPosts
  \/ findPostById
  \/ createPost
  \/ updatePost
  \/ deletePost

Spec == Init /\ [][Next]_vars

\* ------------------------------------------------------- token lifetime
\* the clock advances
Tick ==
  /\ now < MaxTime
  /\ now' = now + 1
  /\ UNCHANGED <<permissions, stores, req, served, processed, issued, pool, resolved>>

\* registration, login, and one route behind verifyToken
TokenRoutes ==
  { r \in router :
      \/ r.path = <<"auth", "register">>
      \/ r.path = <<"auth", "login">>
      \/ r.method = "GET" /\ r.path = <<"roles">> }

\* a client sends no token or one that loginUser handed out
TokenRequest == Arrival(TokenRoutes, issued \cup {NoHeader}, MaxRequests)

NextToken ==
  \/ Tick
  \/ TokenRequest
  \/ checkRoles
  \/ registerUser
  \/ loginUser
  \/ verifyToken
  \/ findRoles

SpecToken == Init /\ [][NextToken]_vars

\* ---------------------------------------------------- concurrent requests
\* Node runs one callback at a time: a handler runs without interruption up
\* to its next await, and other requests' callbacks run while it waits. Each
\* action below is one such stretch of one request of the pool, with the
\* database operation it awaits taking effect at one point of the stretch.

\* the User collection after two registrations: an identity with the role
\* guest and an identity with the role admin
ConcurrentUsers ==
  <<[email |-> "a@x.com", password |-> Hash("secret123"), permissions |-> <<>>,
     roles |-> <<4>>],
    [email |-> "b@x.com", password |-> Hash("secret123"), permissions |-> <<>>,
     roles |-> <<2>>]>>

\* the process starts on a database that already holds these identities
InitConcurrent ==
  /\ permissions = InitialPermissions
  /\ users = ConcurrentUsers
  /\ roleStore = SeedRoles
  /\ posts = {}
  /\ nextUserId = Len(ConcurrentUsers) + 1
  /\ nextRoleId = Len(SeedRoles) + 1
  /\ nextPostId = 1
  /\ req = Idle
  /\ served = 0
  /\ processed = {}
  /\ now = 0
  /\ issued = {}
  /\ pool = <<>>
  /\ resolved = {}

\* a request as the router hands it to the first entry of its chain
Request(method, path, id, token, body) ==
  [Idle EXCEPT !.method = method, !.path = path, !.id = id, !.token = token,
               !.body = body, !.received = body, !.pc = 1,
               !.chain = (CHOOSE r \in router : r.method = method /\ r.path = path).chain]

\* the requests clients send while others are being served
ConcurrentRequests ==
  { Request("GET", <<"users">>, 0, JwtSign(1, 0), NoBody),
    Request("GET", <<"posts">>, 0, JwtSign(1, 0), NoBody),
    Request("PUT", <<"users", ":id">>, 1, JwtSign(2, 0),
            [permissions |-> <<"posts_write">>]),
    Request("POST", <<"auth", "register">>, 0, NoHeader,
            UserBody("c@x.com", <<>>, AbsentRoles)) }

\* the entry of its chain the request of the pool is in
At(i, name) ==
  /\ pool[i].pc \in 1..Len(pool[i].chain)
  /\ pool[i].chain[pool[i].pc] = name

Accept ==
  /\ Len(pool) < MaxInFlight
  /\ \E r \in ConcurrentRequests : pool' = Append(pool, r)
  /\ UNCHANGED <<permissions, stores, req, served, processed, now, issued, resolved>>

\* verifyToken up to `await userService.findUserById(verify.id)`
verifyTokenAwait ==
  \E i \in 1..Len(pool) :
  /\ At(i, "verifyToken")
  /\ pool[i].awaited = NoBody
  /\ LET r      == pool[i]
         verify == JwtVerify(r.token, now)
     IN pool' = [pool EXCEPT ![i] =
          IF ~verify.ok
          THEN Return(Send(Status([r EXCEPT !.failure = "Token"], 401),
                           Message(verify.message)), "verifyToken")
          ELSE [r EXCEPT !.awaited = [getUser |-> FindUserById(verify.id)]]]
  /\ UNCHANGED <<permissions, stores, req, served, processed, now, issued, resolved>>

getPermissionsLosesInsert ==
  \E i \in 1..Len(pool) :
  /\ At(i, "verifyToken")
  /\ pool[i].awaited # NoBody
  /\ LET r               == pool[i]
         getUser         == r.awaited.getUser
         attached        == CallNext([r EXCEPT !.currentUser = getUser,
                                               !.awaited = NoBody], "verifyToken")
         table           == [permissions EXCEPT ![r.method] =
                               Push(InitialPermissions[r.method],
                                    PermissionString(CurrentModule(r.path), r.method))]
         userPermissions == UserPermissions(getUser)
         granted         == PermissionGranted(table[r.method], userPermissions)
         decided         == [attached EXCEPT
                               !.granted = granted,
                               !.userPermissions = userPermissions,
                               !.turn = 1 + Cardinality({j \in 1..Len(pool) :
                                                           pool[j].turn > 0})]
     IN IF getUser.id = 0
        THEN /\ pool' = [pool EXCEPT ![i] =
                  Return(Status([r EXCEPT !.failure = "IdentityNotFound",
                                          !.awaited = NoBody], 400), "verifyToken")]
             /\ UNCHANGED permissions
        ELSE /\ permissions' = table
             /\ pool' = [pool EXCEPT ![i] =
                  IF granted = "none"
                  THEN Return(Send(Status([decided EXCEPT !.failure = "PermissionDenied"],
                                          403),
                                   Message("Access denied. No permission.")),
                              "getPermissions")
                  ELSE CallNext(decided, "getPermissions")]
  /\ UNCHANGED <<stores, req, served, processed, now, issued, resolved>>

\* verifyToken after the await (attach the identity, next()) and, in the same
\* stretch, the whole of getPermissions, which awaits nothing
getPermissionsAfterAwait ==
  \E i \in 1..Len(pool) :
  /\ At(i, "verifyToken")
  /\ pool[i].awaited # NoBody
  /\ LET r               == pool[i]
         getUser         == r.awaited.getUser
         attached        == CallNext([r EXCEPT !.currentUser = getUser,
                                               !.awaited = NoBody], "verifyToken")
         table           == Register(permissions, r.method,
                                     PermissionString(CurrentModule(r.path), r.method))
         userPermissions == UserPermissions(getUser)
         granted         == PermissionGranted(table[r.method], userPermissions)
         decided         == [attached EXCEPT
                               !.granted = granted,
                               !.userPermissions = userPermissions,
                               !.turn = 1 + Cardinality({j \in 1..Len(pool) :
                                                           pool[j].turn > 0})]
     IN IF getUser.id = 0
        THEN /\ pool' = [pool EXCEPT ![i] =
                  Return(Status([r EXCEPT !.failure = "IdentityNotFound",
                                          !.awaited = NoBody], 400), "verifyToken")]
             /\ UNCHANGED permissions
        ELSE /\ permissions' = table
             /\ pool' = [pool EXCEPT ![i] =
                  IF granted = "none"
                  THEN Return(Send(Status([decided EXCEPT !.failure = "PermissionDenied"],
                                          403),
                                   Message("Access denied. No permission.")),
                              "getPermissions")
                  ELSE CallNext(decided, "getPermissions")]
  /\ UNCHANGED <<stores, req, served, processed, now, issued, resolved>>

\* the handler behind getPermissions: its repository call and its response
handlerAwait ==
  \E i \in 1..Len(pool) :
  /\ \E h \in {"findUsers", "findPosts", "updateUser"} : At(i, h)
  /\ LET r == pool[i]
         h == r.chain[r.pc]
     IN IF h = "updateUser" /\ r.id \in DOMAIN users
        THEN /\ users' = Update(users, r.id, UpdateDocument(r.body))
             /\ pool' = [pool EXCEPT ![i] =
                  Finish(r, h, 200,
                         [user |-> ToJSON(Update(users, r.id, UpdateDocument(r.body))[r.id])])]
        ELSE /\ UNCHANGED users
             /\ pool' = [pool EXCEPT ![i] =
                  CASE h = "updateUser" -> Finish(r, h, 404, Message("User not found"))
                    [] h = "findUsers"  ->
                         Finish(r, h, 200,
                                [users |-> [id \in DOMAIN users |-> ToJSON(FindUserById(id))]])
                    [] OTHER ->
                         IF posts = {}
                         THEN Finish(r, h, 404, Message("No posts found"))
                         ELSE Finish(r, h, 200, [posts |-> posts])]
  /\ UNCHANGED <<permissions, roleStore, posts, nextUserId, nextRoleId, nextPostId,
                 req, served, processed, now, issued, resolved>>

\* checkRoles: its `await roleService.findRoles(...)` and what follows it
checkRolesAwait ==
  \E i \in 1..Len(pool) :
  /\ At(i, "checkRoles")
  /\ LET r         == pool[i]
         role      == RequestedRoles(BodyRoles(r.body))
         foundRoles == FindRolesIn(role, MaxRoles)
         asked     == [r EXCEPT !.role = role]
     IN /\ pool' = [pool EXCEPT ![i] =
             IF Len(foundRoles) = 0
             THEN Return(Send(Status([asked EXCEPT !.failure = "NoMatchingRoles"], 404),
                              Message("No roles found")), "checkRoles")
             ELSE IF r.body = NoBody
             THEN Return(Send(Status(asked, 500), [error |-> "TypeError"]), "checkRoles")
             ELSE CallNext([asked EXCEPT !.body.roles =
                                           [type |-> "ids", value |-> foundRoles]],
                           "checkRoles")]
        /\ resolved' = resolved \cup {<<roleStore[id].name, id>> : id \in Elems(foundRoles)}
  /\ UNCHANGED <<permissions, stores, req, served, processed, now, issued>>

\* registerUser up to and including `await userService.findUserByEmail(email)`
\* and the 409 that follows a hit
registerUserFind ==
  \E i \in 1..Len(pool) :
  /\ At(i, "registerUser")
  /\ pool[i].awaited = NoBody
  /\ LET r == pool[i]
     IN pool' = [pool EXCEPT ![i] =
          IF \E id \in DOMAIN users : users[id].email = r.body.email
          THEN Finish([r EXCEPT !.failure = "EmailInUse"], "registerUser", 409,
                      Message("Email already in use"))
          ELSE [r EXCEPT !.awaited = [existingUser |-> FALSE]]]
  /\ UNCHANGED <<permissions, stores, req, served, processed, now, issued, resolved>>

\* registerUser from `await userService.createUser(req.body)` on: the insert,
\* which the unique index on email can reject, and the response
registerUserSave ==
  \E i \in 1..Len(pool) :
  /\ At(i, "registerUser")
  /\ pool[i].awaited # NoBody
  /\ LET r == [pool[i] EXCEPT !.awaited = NoBody]
     IN IF UserSaveFails(r.body)
        THEN /\ pool' = [pool EXCEPT ![i] =
                  Finish(r, "registerUser", 500, [error |-> "MongoServerError"])]
             /\ UNCHANGED <<users, nextUserId>>
        ELSE /\ users' = Create(users, nextUserId, NewUserDoc(r.body))
             /\ nextUserId' = nextUserId + 1
             /\ pool' = [pool EXCEPT ![i] =
                  Finish(r, "registerUser", 201, [user |-> ToJSON(NewUserDoc(r.body))])]
  /\ UNCHANGED <<permissions, roleStore, posts, nextRoleId, nextPostId,
                 req, served, processed, now, issued, resolved>>

NextConcurrent ==
  \/ Accept
  \/ verifyTokenAwait
  \/ getPermissionsAfterAwait
  \/ handlerAwait
  \/ checkRolesAwait
  \/ registerUserFind
  \/ registerUserSave

SpecConcurrent == InitConcurrent /\ [][NextConcurrent]_vars

\* ---------------------------------------------------------- role records
\* registration and the routes that write the Role collection
RoleRoutes ==
  { r \in router :
      \/ r.path = <<"auth", "register">>
      \/ r.path[1] = "roles" /\ r.method # "GET" }

\* a client sends a token it has just been given for an existing identity
RoleRequest ==
  Arrival(RoleRoutes, {JwtSign(i, now) : i \in 1..(nextUserId - 1)}, MaxRequests + 1)

NextRoles ==
  \/ RoleRequest
  \/ verifyToken
  \/ checkRoles
  \/ registerUser
  \/ createRole
  \/ updateRole
  \/ deleteRole

SpecRoles == Init /\ [][NextRoles]_vars

\* ---------------------------------------------------------------- claims
\* the middleware or handler has run for the request being served
Ran(name) == Includes(req.trace, name)

\* the middleware has run for the request and called next()
CalledNext(name) ==
  \E i \in 1..Len(req.trace) :
    req.trace[i] = name /\ (i < Len(req.trace) \/ req.pc = i + 1)

Allowed == CalledNext("getPermissions")

Denied403 ==
  /\ Ran("getPermissions")
  /\ ~CalledNext("getPermissions")
  /\ req.status = 403
  /\ req.sent

\* the required permission string of the request being served
Required == PermissionString(CurrentModule(req.path), req.method)

\* effective permission set of an identity: its direct set when non-empty,
\* otherwise the union of the permission sets of its resolved roles
DirectSet(u) == Elems(u.permissions)
RoleSet(u) == UNION {Elems(u.roles[i].permissions) : i \in 1..Len(u.roles)}
EffectiveSet(u) == IF DirectSet(u) # {} THEN DirectSet(u) ELSE RoleSet(u)

Effective == EffectiveSet(req.currentUser)

\* C1 as stated: a request is allowed iff its required permission string is
\* in the effective set of the identity, and is answered 403 otherwise
C1_AllowIffRequiredHeld ==
  Ran("getPermissions") =>
    /\ Allowed <=> Required \in Effective
    /\ ~Allowed => Denied403

\* C1 amended: a request is allowed iff the effective set holds admin_granted,
\* the required string of this request, or the required string of an earlier
\* getPermissions request with the same method; otherwise it is answered 403
C1_AllowIffRequiredOrRegisteredHeld ==
  Ran("getPermissions") =>
    /\ Allowed <=>
         \/ "admin_granted" \in Effective
         \/ \E p \in processed :
              p[1] = req.method /\ PermissionString(p[2], p[1]) \in Effective
    /\ Required \in Effective => Allowed
    /\ ~Allowed => Denied403

C1_Witness_AllowedOnRequired ==
  /\ Allowed
  /\ Required \in Effective
  /\ "admin_granted" \notin Effective
  /\ Cardinality({p \in processed : p[1] = req.method}) = 1

\* C2: a request is allowed iff some string in the list of the request's
\* method, taken after the required string was inserted, is in the effective set
C2_AllowIffAnyRegisteredHeld ==
  Ran("getPermissions") =>
    /\ Includes(permissions[req.method], Required)
    /\ Allowed <=> (Elems(permissions[req.method]) \cap Effective # {})

C2_Witness_AllowedWithoutRequired ==
  /\ Allowed
  /\ Required \notin Effective
  /\ Len(permissions[req.method]) >= 3

\* C3: after a request with method M to module A was processed, an identity
\* holding A's string but not B's is allowed on a request with M to module B
C3_BleedThrough ==
  Ran("getPermissions") =>
    \A p \in processed :
      ( /\ p[1] = req.method
        /\ p[2] # CurrentModule(req.path)
        /\ PermissionString(p[2], p[1]) \in Effective
        /\ Required \notin Effective ) => Allowed

C3_Witness_AllowedOnOtherModule ==
  /\ Allowed
  /\ Required \notin Effective
  /\ "admin_granted" \notin Effective
  /\ \E p \in processed :
       /\ p[1] = req.method
       /\ p[2] # CurrentModule(req.path)
       /\ PermissionString(p[2], p[1]) \in Effective

\* C4: for an identity with a non-empty direct set the permissions used for
\* the decision are exactly the direct set; role permissions do not count
C4_DirectOverridesRoles ==
  (Ran("getPermissions") /\ DirectSet(req.currentUser) # {}) =>
    /\ Elems(req.userPermissions) = DirectSet(req.currentUser)
    /\ Allowed <=> (Elems(permissions[req.method]) \cap DirectSet(req.currentUser) # {})

C4_Witness_RoleGrantIgnored ==
  /\ Denied403
  /\ DirectSet(req.currentUser) # {}
  /\ Required \in RoleSet(req.currentUser)
  /\ Required \notin DirectSet(req.currentUser)

\* C5: for an identity with an empty direct set the permissions used for the
\* decision are the union of its roles' permissions, each string once
C5_UnionOfRoles ==
  (Ran("getPermissions") /\ DirectSet(req.currentUser) = {}) =>
    /\ Elems(req.userPermissions) = RoleSet(req.currentUser)
    /\ Len(req.userPermissions) = Cardinality(RoleSet(req.currentUser))

C5_Witness_TwoOverlappingRoles ==
  /\ Ran("getPermissions")
  /\ DirectSet(req.currentUser) = {}
  /\ Len(req.currentUser.roles) = 2
  /\ Elems(req.currentUser.roles[1].permissions)
       \cap Elems(req.currentUser.roles[2].permissions) # {}
  /\ Elems(req.currentUser.roles[1].permissions)
       # Elems(req.currentUser.roles[2].permissions)

\* C6: admin_granted is in the list of every method in every reachable state,
\* and an identity whose effective set holds it is allowed on every request
C6_AdminGrantedAlwaysAllowed ==
  /\ \A m \in Method : Includes(permissions[m], "admin_granted")
  /\ (Ran("getPermissions") /\ "admin_granted" \in Effective) => Allowed

C6_Witness_AdminAllowed ==
  /\ Allowed
  /\ "admin_granted" \in Effective
  /\ Required \notin Effective
  /\ Len(permissions[req.method]) >= 2

\* C7: an identity with no direct permission and no role is denied with 403,
\* whatever the table holds
C7_EmptyIdentityDenied ==
  ( /\ Ran("getPermissions")
    /\ Len(req.currentUser.permissions) = 0
    /\ Len(req.currentUser.roles) = 0 ) => Denied403

C7_Witness_EmptyIdentityDenied ==
  /\ Denied403
  /\ Len(req.currentUser.permissions) = 0
  /\ Len(req.currentUser.roles) = 0
  /\ Len(permissions[req.method]) >= 2

\* C8: on a route registered with verifyToken nothing runs before it, whatever
\* runs after it finds a verified token and the loaded identity attached as
\* currentUser, and a request whose token does not verify stops in verifyToken
C8_VerifyTokenFirst ==
  Includes(req.chain, "verifyToken") =>
    /\ \A i \in 1..Len(req.trace) :
         req.trace[i] # "verifyToken" =>
           \E j \in 1..(i - 1) : req.trace[j] = "verifyToken"
    /\ (Current \notin {"", "verifyToken"} \/ CalledNext("verifyToken")) =>
         /\ JwtVerify(req.token, now).ok
         /\ req.currentUser.id # 0
         /\ req.currentUser.id = req.token.id
    /\ (Ran("verifyToken") /\ ~JwtVerify(req.token, now).ok) =>
         /\ req.trace = <<"verifyToken">>
         /\ Current = ""
         /\ req.currentUser = NoUser

C8_Witness_HandlerAfterVerifyToken ==
  /\ Len(req.trace) = 3
  /\ req.trace[1] = "verifyToken"
  /\ req.trace[2] = "getPermissions"
  /\ req.currentUser.id # 0

\* the CRUD handlers of the user, role and post routes
Handlers ==
  { "findUsers", "findUserById", "createUser", "updateUser", "deleteUser",
    "findRoles", "findRoleById", "createRole", "updateRole", "deleteRole",
    "findPosts", "findPostById", "createPost", "updatePost", "deletePost" }

\* C9: no user, role or post handler runs for a request that did not pass
\* verifyToken (registration and login are the only open routes)
C9_HandlersBehindVerifyToken ==
  (\E h \in Handlers : Ran(h)) => CalledNext("verifyToken")

\* the failures raised by verifyToken, getPermissions and checkRoles
AuthorizationFailures ==
  {"Token", "IdentityNotFound", "PermissionDenied", "NoMatchingRoles"}

\* C10: a request that failed in verifyToken, getPermissions or checkRoles
\* and has nothing left to run has been sent a response
C10_FailureGetsResponse ==
  (Current = "" /\ req.failure \in AuthorizationFailures) => req.sent

C12_TokenLifetime ==
  [][/\ now' >= now
     /\ issued' # issued =>
          /\ Current = "loginUser"
          /\ req'.status = 200
          /\ req'.resBody.token.exp = now + TTL
          /\ issued' = issued \cup {req'.resBody.token}
     /\ (Current = "loginUser" /\ req' # req /\ req'.status = 200) =>
          req'.resBody.token \in issued'
     /\ (Current = "verifyToken" /\ req' # req /\ req.token \in issued) =>
          /\ now < req.token.exp =>
               /\ req'.status # 401
               /\ req.token.id \in DOMAIN users =>
                    /\ req'.pc = req.pc + 1
                    /\ req'.currentUser.id = req.token.id
          /\ now > req.token.exp =>
               /\ req'.status = 401
               /\ req'.sent
               /\ req'.pc = 0
               /\ req'.currentUser = NoUser]_vars

C12_Witness_IssuedTokenExpired ==
  /\ Ran("verifyToken")
  /\ req.token \in issued
  /\ req.status = 401
  /\ req.sent
  /\ req.resBody = Message("jwt expired")

\* C13: a request whose token is absent, empty, malformed or carries an
\* altered signature is answered 401 by verifyToken, which neither attaches
\* currentUser nor calls next; currentUser is only ever the identity named by
\* the claims of a token signed with the secret.
C13_UnverifiedTokenRejected ==
  /\ (Ran("verifyToken")
        /\ req.token.kind \in {"absent", "empty", "malformed", "tampered"}) =>
       /\ req.status = 401
       /\ req.sent
       /\ req.currentUser = NoUser
       /\ ~CalledNext("verifyToken")
       /\ req.trace = <<"verifyToken">>
       /\ Current = ""
  /\ req.currentUser # NoUser =>
       /\ req.token.kind = "signed"
       /\ req.currentUser.id = req.token.id

C13_Witness_AlteredSignatureRejected ==
  /\ Ran("verifyToken")
  /\ req.token.kind = "tampered"
  /\ req.token.id \in DOMAIN users
  /\ req.status = 401

\* C14: after any sequence of registerUser, createUser and updateUser the
\* stored password of every identity is a digest, never the plaintext that
\* was received.
C14_StoredPasswordIsDigest ==
  \A id \in DOMAIN users : users[id].password.digest

\* C15: no response body carries the password field of an identity: not for
\* a single user (register, create, get, update), not for any entry of the
\* user list, not beside the token of a login.
C15_NoPasswordInResponse ==
  req.sent =>
    /\ "password" \notin DOMAIN req.resBody
    /\ "user" \in DOMAIN req.resBody => "password" \notin DOMAIN req.resBody.user
    /\ "users" \in DOMAIN req.resBody =>
         \A id \in DOMAIN req.resBody.users :
           "password" \notin DOMAIN req.resBody.users[id]

C15_Witness_StoredUserReturned ==
  /\ Ran("findUsers")
  /\ req.sent
  /\ req.status = 200
  /\ \E id \in DOMAIN users :
       /\ users[id].password.digest
       /\ id \in DOMAIN req.resBody.users

\* C16: loginUser answers an email that matches no identity exactly as it
\* answers an existing identity with a wrong password: status 400 and the
\* body { message: "Invalid user or password" }, which carries no token.
C16_LoginFailuresAlike ==
  Ran("loginUser") =>
    LET found == {id \in DOMAIN users : users[id].email = req.body.email}
        match == \E id \in found : ComparePassword(req.body.password, users[id].password)
    IN ~match =>
         /\ req.status = 400
         /\ req.sent
         /\ req.resBody = Message("Invalid user or password")
         /\ "token" \notin DOMAIN req.resBody

C16_Witness_WrongPassword ==
  /\ Ran("loginUser")
  /\ req.status = 400
  /\ \E id \in DOMAIN users : users[id].email = req.body.email

\* C17: registerUser with an email that a stored identity already has
\* answers 409 (EmailInUse) and leaves the user collection as it was.
C17_DuplicateEmailConflict ==
  [][(/\ Current = "registerUser"
      /\ req' # req
      /\ req.body # NoBody
      /\ \E id \in DOMAIN users : users[id].email = req.body.email)
     => /\ req'.status = 409
        /\ req'.sent
        /\ req'.failure = "EmailInUse"
        /\ req'.pc = 0
        /\ users' = users
        /\ nextUserId' = nextUserId]_vars

C17_Witness_EmailInUse ==
  /\ Ran("registerUser")
  /\ req.failure = "EmailInUse"
  /\ req.status = 409
  /\ \E id \in DOMAIN users : users[id].email = req.received.email

\* the list of role names the claims expect checkRoles to resolve for the
\* body as it was received
Asked ==
  IF /\ req.received # NoBody
     /\ req.received.roles.type = "array"
     /\ Len(req.received.roles.value) # 0
  THEN req.received.roles.value
  ELSE <<"user">>

\* the roles of the store whose name is in that list
Matching == {id \in DOMAIN roleStore : Includes(Asked, roleStore[id].name)}

\* C18: checkRoles resolves the default list ["user"] when the roles field of
\* the body is absent, is not an array or is an empty array, and resolves a
\* non-empty array as given.
C18_DefaultRoleList ==
  Ran("checkRoles") =>
    /\ req.role = Asked
    /\ req.failure = "NoMatchingRoles" <=>
         ~\E id \in DOMAIN roleStore : Includes(req.role, roleStore[id].name)

C18_Witness_NonArrayGetsDefault ==
  /\ CalledNext("checkRoles")
  /\ req.received.roles.type = "string"
  /\ req.role = <<"user">>
  /\ req.body.roles.value = <<1>>

C20_NoMatchNotFound ==
  /\ []((Ran("checkRoles") /\ Matching = {}) =>
          /\ req.status = 404
          /\ req.sent
          /\ req.failure = "NoMatchingRoles"
          /\ ~CalledNext("checkRoles")
          /\ Current = ""
          /\ ~Ran("registerUser")
          /\ ~Ran("createUser"))
  /\ [][(Current = "checkRoles" /\ req' # req /\ Matching = {}) =>
          /\ users' = users
          /\ nextUserId' = nextUserId
          /\ req'.pc = 0]_vars

C20_Witness_DefaultRoleMissing ==
  /\ Ran("checkRoles")
  /\ req.failure = "NoMatchingRoles"
  /\ req.status = 404
  /\ req.role = <<"user">>

\* C22: no method's permission list ever holds the same string twice, and a
\* getPermissions run whose required string is already in the list leaves the
\* table as it was.
C22_NoDuplicateInLists ==
  /\ [](\A m \in Method :
          \A i, j \in 1..Len(permissions[m]) :
            permissions[m][i] = permissions[m][j] => i = j)
  /\ [][(/\ Current = "getPermissions"
          /\ req' # req
          /\ Includes(permissions[req.method], Required))
         => permissions' = permissions]_vars

C22_Witness_SecondUpdateRegistersAgain ==
  /\ Current = "updateUser"
  /\ Allowed
  /\ \E id \in DOMAIN users : ~users[id].password.digest
  /\ permissions["PUT"] = <<"admin_granted", "users_update">>

\* C24: a getPermissions run, allowing or denying, leaves every identity,
\* role and post as it was; the only thing it may write is its required
\* string at the end of the list of its method; after a denial (403) no
\* handler runs for the request.
C24_GetPermissionsFrame ==
  /\ [](req.failure = "PermissionDenied" =>
          /\ Denied403
          /\ Current = ""
          /\ req.trace[Len(req.trace)] = "getPermissions"
          /\ \A h \in Handlers : ~Ran(h))
  /\ [][(Current = "getPermissions" /\ req' # req) =>
          /\ users' = users
          /\ roleStore' = roleStore
          /\ posts' = posts
          /\ <<nextUserId, nextRoleId, nextPostId>>' = <<nextUserId, nextRoleId, nextPostId>>
          /\ \A m \in Method \ {req.method} : permissions'[m] = permissions[m]
          /\ \/ permissions'[req.method] = permissions[req.method]
             \/ permissions'[req.method] = Append(permissions[req.method], Required)]_vars

C24_Witness_DeniedBeforeHandler ==
  /\ Denied403
  /\ req.method = "DELETE"
  /\ req.id \in DOMAIN users
  /\ permissions["DELETE"] = <<"admin_granted", "users_delete">>

\* C27: getPermissions registers the required string before it decides: once
\* it has run for a request, denied with 403 or allowed, the string is in the
\* list of the request's method.
C27_DeniedRequestRegisters ==
  /\ [](Ran("getPermissions") => Includes(permissions[req.method], Required))
  /\ [][(/\ Current = "getPermissions"
          /\ req' # req
          /\ req'.status = 403
          /\ ~Includes(permissions[req.method], Required))
         => permissions'[req.method] = Append(permissions[req.method], Required)]_vars

C27_Witness_FirstRequestDenied ==
  /\ Denied403
  /\ processed = {<<req.method, CurrentModule(req.path)>>}
  /\ Includes(permissions[req.method], Required)
  /\ Required \notin Effective

\* the modules whose routes run getPermissions
Modules == {"users", "posts"}

\* the effective permission set of a stored identity, given the two stores
HeldIn(us, rs, id) ==
  IF Len(us[id].permissions) # 0
  THEN Elems(us[id].permissions)
  ELSE UNION {Elems(rs[r].permissions) : r \in Elems(us[id].roles) \cap DOMAIN rs}

\* C28: every step leaves each method's list as it was or longer at the end
\* (nothing is removed); hence, for an identity whose permissions the step
\* does not change, a {method, module} request that getPermissions would
\* allow before the step it still allows after it.
C28_ListsOnlyGrow ==
  [][/\ \A m \in Method :
          /\ Len(permissions'[m]) >= Len(permissions[m])
          /\ SubSeq(permissions'[m], 1, Len(permissions[m])) = permissions[m]
     /\ \A m \in Method, mod \in Modules, id \in DOMAIN users :
          ( /\ permissions'[m] # permissions[m]
            /\ id \in DOMAIN users'
            /\ HeldIn(users', roleStore', id) = HeldIn(users, roleStore, id)
            /\ (Elems(permissions[m]) \cup {PermissionString(mod, m)})
                 \cap HeldIn(users, roleStore, id) # {} )
          => (Elems(permissions'[m]) \cup {PermissionString(mod, m)})
               \cap HeldIn(users, roleStore, id) # {}]_vars

C28_Witness_AllowedAgain ==
  /\ Current = "updateUser"
  /\ Allowed
  /\ req.id = req.currentUser.id
  /\ ~users[req.id].password.digest
  /\ Elems(permissions["PUT"]) \cap Effective # {}

\* the strings getPermissions can require for a method: one per module, with
\* the scope of the method
ScopedStrings(m) ==
  CASE m = "GET"    -> {"users_read", "posts_read"}
    [] m = "POST"   -> {"users_write", "posts_write"}
    [] m = "PUT"    -> {"users_update", "posts_update"}
    [] m = "DELETE" -> {"users_delete", "posts_delete"}

\* C29: each string in the list of a method is admin_granted or a
\* {module}_{scope} string with the scope of that method; hence an identity
\* whose effective set holds neither admin_granted nor a string of that scope
\* is denied on every request with the method.
C29_ListHoldsOwnScopeOnly ==
  /\ \A m \in Method :
       Elems(permissions[m]) \subseteq {"admin_granted"} \cup ScopedStrings(m)
  /\ ( /\ Ran("getPermissions")
        /\ Effective \cap ({"admin_granted"} \cup ScopedStrings(req.method)) = {} )
     => Denied403

C29_Witness_OtherScopeDenied ==
  /\ Denied403
  /\ req.method = "GET"
  /\ Effective = {"posts_write"}

C26_DeleteRoleDoesNotCascade ==
  /\ []((Ran("verifyToken") /\ req.currentUser # NoUser
           /\ \A h \in Handlers : ~Ran(h)) =>
          /\ \A i \in 1..Len(req.currentUser.roles) :
               req.currentUser.roles[i].id \in DOMAIN roleStore
          /\ Ran("getPermissions") =>
               Effective = HeldIn(users, roleStore, req.currentUser.id))
  /\ [][(Current = "deleteRole" /\ req' # req) =>
          /\ users' = users
          /\ nextUserId' = nextUserId
          /\ DOMAIN roleStore' \in {DOMAIN roleStore, DOMAIN roleStore \ {req.id}}
          /\ \A r \in DOMAIN roleStore' : roleStore'[r] = roleStore[r]]_vars

C26_Witness_DeletedRoleGivesNothing ==
  /\ Denied403
  /\ users[req.currentUser.id].roles # <<>>
  /\ \A i \in 1..Len(users[req.currentUser.id].roles) :
       users[req.currentUser.id].roles[i] \notin DOMAIN roleStore
  /\ req.userPermissions = <<>>

\* C21 as stated: checkRoles writes neither the Role collection nor the User
\* collection, and a role name that was resolved twice was resolved to the
\* same _id both times unless the role resolved first has been deleted.
C21_ResolutionReadsOnly ==
  /\ [](\A p, q \in resolved :
          (p[1] = q[1] /\ p[2] \in DOMAIN roleStore /\ q[2] \in DOMAIN roleStore)
          => p[2] = q[2])
  /\ [][(Current = "checkRoles" /\ req' # req) =>
          /\ roleStore' = roleStore
          /\ users' = users
          /\ <<nextRoleId, nextUserId>>' = <<nextRoleId, nextUserId>>]_vars

\* C21 amended: checkRoles writes neither collection, and a role name that
\* was resolved twice was resolved to the same _id both times unless the role
\* resolved first has been deleted or renamed.
C21_ResolutionReadsOnlyUnlessRenamed ==
  /\ [](\A p, q \in resolved :
          ( /\ p[1] = q[1]
            /\ p[2] \in DOMAIN roleStore /\ roleStore[p[2]].name = p[1]
            /\ q[2] \in DOMAIN roleStore /\ roleStore[q[2]].name = q[1] )
          => p[2] = q[2])
  /\ [][(Current = "checkRoles" /\ req' # req) =>
          /\ roleStore' = roleStore
          /\ users' = users
          /\ <<nextRoleId, nextUserId>>' = <<nextRoleId, nextUserId>>
          /\ resolved' \ resolved \subseteq
               {<<roleStore[id].name, id>> : id \in DOMAIN roleStore}]_vars

C21_Witness_SameRoleResolvedTwice ==
  /\ CalledNext("checkRoles")
  /\ Cardinality(DOMAIN users) = 1
  /\ \E id \in DOMAIN users :
       /\ users[id].roles = <<4>>
       /\ req.received.email # users[id].email
  /\ req.received.roles.value = <<"guest", "manager">>
  /\ req.body.roles.value = <<3, 4>>

\* ------------------------------------------------ claims on concurrent runs
\* the requests of the pool whose chain holds getPermissions
Guarded == {i \in 1..Len(pool) : \E k \in 1..Len(pool[i].chain) :
                                   pool[i].chain[k] = "getPermissions"}

\* the requests of the pool getPermissions has decided
Decided == {i \in Guarded : pool[i].turn > 0}

RequiredOf(r) == PermissionString(CurrentModule(r.path), r.method)

Count(seq, x) == Cardinality({k \in DOMAIN seq : seq[k] = x})

Completed(i) == pool[i].pc \notin 1..Len(pool[i].chain)

\* the strings a method's list holds once the requests decided no later than
\* request i have inserted theirs
ListAtTurn(i) ==
  {"admin_granted"} \cup
  {RequiredOf(pool[j]) : j \in {k \in Decided : /\ pool[k].method = pool[i].method
                                                /\ pool[k].turn <= pool[i].turn}}

\* every arrangement of a set of requests one after another
Orders(S) ==
  {o \in [1..Cardinality(S) -> S] : \A a, b \in DOMAIN o : o[a] = o[b] => a = b}

\* the decisions the requests get when each runs to completion before the
\* next starts: the pairs <<request, allowed>>
RECURSIVE SerialDecisions(_, _, _)
SerialDecisions(order, us, table) ==
  IF order = <<>> THEN {}
  ELSE LET i       == Head(order)
           r       == pool[i]
           after   == Register(table, r.method, RequiredOf(r))
           allowed == Elems(after[r.method]) \cap HeldIn(us, roleStore, r.token.id) # {}
           stored  == IF allowed /\ r.chain[Len(r.chain)] = "updateUser"
                      THEN Update(us, r.id, UpdateDocument(r.received))
                      ELSE us
       IN {<<i, allowed>>} \cup SerialDecisions(Tail(order), stored, after)

\* C23 (as stated): under any interleaving the insert-if-absent step loses no
\* insert and adds no duplicate, and once the requests have completed each
\* request's decision is the one it gets in some one-after-another order.
C23_DecisionsSerializable ==
  (\A i \in 1..Len(pool) : Completed(i)) =>
     /\ \A i \in Decided : Count(permissions[pool[i].method], RequiredOf(pool[i])) = 1
     /\ \E o \in Orders(Decided) :
          \A i \in Decided : <<i, pool[i].granted # "none">>
                               \in SerialDecisions(o, ConcurrentUsers, InitialPermissions)

\* C23 (amended): under any interleaving no method's list holds a string
\* twice, the required string of every decided request is in its method's
\* list exactly once, and each decision is the one given by the list as it
\* stands after the inserts of the requests decided no later, applied to the
\* identity verifyToken loaded for the request.
C23_InsertIsAtomic ==
  /\ \A m \in Method : \A a, b \in DOMAIN permissions[m] :
       permissions[m][a] = permissions[m][b] => a = b
  /\ \A i \in Decided :
       /\ Count(permissions[pool[i].method], RequiredOf(pool[i])) = 1
       /\ ListAtTurn(i) \subseteq Elems(permissions[pool[i].method])
       /\ pool[i].userPermissions = UserPermissions(pool[i].currentUser)
       /\ (pool[i].granted # "none")
            = (ListAtTurn(i) \cap Elems(pool[i].userPermissions) # {})

\* two requests of one method interleaved: the second was decided while the
\* first was still waiting for its handler, and both strings are in the list
C23_Witness_InterleavedInserts ==
  \E i, j \in Decided :
    /\ pool[i].method = pool[j].method
    /\ RequiredOf(pool[i]) # RequiredOf(pool[j])
    /\ pool[i].turn < pool[j].turn
    /\ ~Completed(i)
    /\ pool[j].granted # "none"
    /\ Count(permissions[pool[i].method], RequiredOf(pool[i])) = 1
    /\ Count(permissions[pool[j].method], RequiredOf(pool[j])) = 1

\* C30: under any interleaving of registerUser requests for one email, at most
\* one identity holds that email and at most one of the requests is answered
\* 201.
C30_OneIdentityPerEmail ==
  /\ \A a, b \in DOMAIN users : users[a].email = users[b].email => a = b
  /\ \A i, j \in 1..Len(pool) :
       /\ pool[i].chain[Len(pool[i].chain)] = "registerUser"
       /\ pool[j].chain[Len(pool[j].chain)] = "registerUser"
       /\ pool[i].received.email = pool[j].received.email
       /\ pool[i].sent /\ pool[i].status = 201
       /\ pool[j].sent /\ pool[j].status = 201
       => i = j

\* two requests for one email both passed the find-by-email check before
\* either saved: one is answered 201, the other 500 by the unique index
C30_Witness_BothPassedTheCheck ==
  \E i, j \in 1..Len(pool) :
    /\ i # j
    /\ pool[i].chain[Len(pool[i].chain)] = "registerUser"
    /\ pool[j].chain[Len(pool[j].chain)] = "registerUser"
    /\ pool[i].received.email = pool[j].received.email
    /\ pool[i].trace = <<"checkRoles", "registerUser">>
    /\ pool[j].trace = <<"checkRoles", "registerUser">>
    /\ pool[i].sent /\ pool[i].status = 201
    /\ pool[j].sent /\ pool[j].status = 500
    /\ Cardinality({id \in DOMAIN users : users[id].email = pool[i].received.email}) = 1
====
